---- MODULE Spec2Model ----
(***************************************************************************)
(* A model of the timeline fetcher: TimelineFetcher (the retrying GET, the *)
(* HTML -> JSON -> synthetic chain of fetch_username, the two parsers and  *)
(* the synthetic generator), to_iso8601, and the semaphore-bounded fan-out *)
(* of fetch_all.                                                           *)
(*                                                                         *)
(* Python values are tagged records ([t |-> "None"], [t |-> "str", ...],   *)
(* [t |-> "int", ...]) so that None, "" and 0 stay distinct and Python's   *)
(* truthiness (`x or y`, `if x`) is computed as Python computes it.        *)
(* Strings are sequences of tokens (characters where the code looks at     *)
(* characters).                                                            *)
(***************************************************************************)
EXTENDS Integers, Sequences, FiniteSets, TLC

VARIABLES cfg, usernames, sem, task, results, order, phase

vars == <<cfg, usernames, sem, task, results, order, phase>>

(***************************************************************************)
(* Bounds of the model.                                                    *)
(***************************************************************************)
NumHandles == 2
MaxConcurrency == 2
MaxPosts == 2
MaxItems == 2

(***************************************************************************)
(* Program constants.                                                      *)
(***************************************************************************)
MaxAttempts == 3
\* wait_exponential(multiplier=0.8, min=1, max=6), in tenths of a time-unit
WaitMultiplier == 8
WaitMin == 10
WaitMax == 60
SyntheticCap == 10
\* abs(hash(...)) % 10_000_000_000: the modulus is 10^HashModulusDigits.
HashModulusDigits == 10

(***************************************************************************)
(* Python values.                                                          *)
(***************************************************************************)
PyNone == [t |-> "None"]
PyStr(s) == [t |-> "str", v |-> s]
PyInt(n) == [t |-> "int", v |-> n]

\* Python truthiness of a value: None, "" and 0 are falsy.
Truthy(x) ==
  CASE x.t = "None" -> FALSE
    [] x.t = "str" -> x.v # <<>>
    [] x.t = "int" -> x.v # 0
    [] OTHER -> TRUE

\* Python's `a or b`.
PyOr(a, b) == IF Truthy(a) THEN a ELSE b

\* str(n) for a natural number: its decimal digits.
Digit(d) ==
  CASE d = 0 -> "0" [] d = 1 -> "1" [] d = 2 -> "2" [] d = 3 -> "3"
    [] d = 4 -> "4" [] d = 5 -> "5" [] d = 6 -> "6" [] d = 7 -> "7"
    [] d = 8 -> "8" [] OTHER -> "9"

RECURSIVE ToStr(_)
ToStr(n) == IF n < 10 THEN <<Digit(n)>> ELSE Append(ToStr(n \div 10), Digit(n % 10))

(***************************************************************************)
(* utils_time: to_iso8601 and now_utc_iso.  A date text is a token         *)
(* sequence <<date, hour, offset>>; dateutil's parser reads the ones of    *)
(* ParsedDate and raises on everything else.                               *)
(***************************************************************************)
NaiveDate == <<"2024-03-05 ", "10", "">>
OffsetDate == <<"2024-03-05 ", "10", "+02:00">>
GarbageDate == <<"yesterday-ish">>

HourOf(tok) == CASE tok = "08" -> 8 [] tok = "10" -> 10 [] OTHER -> 0
HourTok(h) == CASE h = 8 -> "08" [] h = 10 -> "10" [] h = 12 -> "12" [] OTHER -> "00"
OffsetOf(tok) == CASE tok = "+02:00" -> 2 [] OTHER -> 0

\* parser.parse: TRUE when the text is a recognizable date.
Parsable(s) == Len(s) = 3 /\ s[1] = "2024-03-05 " /\ s[2] \in {"08", "10"}
               /\ s[3] \in {"", "+02:00"}

\* dt.astimezone(timezone.utc).isoformat(), a naive dt taken as UTC.
IsoFormatUtc(s) ==
  <<"2024-03-05T", HourTok((HourOf(s[2]) - OffsetOf(s[3])) % 24), ":00:00+00:00">>

\* datetime.now(timezone.utc).isoformat(): the clock reads 12:00 UTC.
now_utc_iso == PyStr(<<"2024-03-05T", "12", ":00:00+00:00">>)

to_iso8601(dt_str) ==
  IF Truthy(dt_str) /\ Parsable(dt_str.v) THEN PyStr(IsoFormatUtc(dt_str.v))
  ELSE now_utc_iso

\* A UTC-normalized ISO-8601 string: date "T" time with the +00:00 offset.
IsUtcIso(x) ==
  /\ x.t = "str"
  /\ Len(x.v) = 3
  /\ x.v[1] = "2024-03-05T"
  /\ x.v[2] \in {"00", "08", "10", "12"}
  /\ x.v[3] = ":00:00+00:00"

(***************************************************************************)
(* Records.  A record is the dict a strategy builds; the keys _fetched_at  *)
(* and _source are absent until fetch_all sets them.                       *)
(***************************************************************************)
Absent == [t |-> "absent"]

MkRecord(tid, created, text, fav, rep, rt, quo, conv, sn) ==
  [tweet_id |-> tid, created_at |-> created, text |-> text,
   favorites |-> fav, replies |-> rep, retweets |-> rt, quotes |-> quo,
   conversation_id |-> conv, screen_name |-> PyStr(sn),
   fetched_at |-> Absent, source |-> Absent]

\* items[:n], for n >= 0.
Take(s, n) == IF n >= Len(s) THEN s ELSE SubSeq(s, 1, n)

Min(a, b) == IF a <= b THEN a ELSE b

(***************************************************************************)
(* _parse_nitter_html.  A document is the sequence of its                  *)
(* div.timeline > div.timeline-item nodes (empty when there is no timeline *)
(* container); a node carries the href of its a.tweet-link, the text of    *)
(* its .tweet-content, the title of its span.tweet-date > a and its        *)
(* div.tweet-stats > span labels.                                          *)
(***************************************************************************)
Digits == {"0", "1", "2", "3", "4", "5", "6", "7", "8", "9"}

DigitVal(c) ==
  CASE c = "0" -> 0 [] c = "1" -> 1 [] c = "2" -> 2 [] c = "3" -> 3
    [] c = "4" -> 4 [] c = "5" -> 5 [] c = "6" -> 6 [] c = "7" -> 7
    [] c = "8" -> 8 [] OTHER -> 9

\* The longest run of digits of s that starts at position i.
RECURSIVE DigitRun(_, _)
DigitRun(s, i) ==
  IF i > Len(s) \/ s[i] \notin Digits THEN <<>>
  ELSE <<s[i]>> \o DigitRun(s, i + 1)

\* re.search(r"/status/(\d+)", href): group 1 of the first match, or None.
StatusId(href) ==
  LET hits == {i \in 1..Len(href) : href[i] = "/status/" /\ DigitRun(href, i + 1) # <<>>}
  IN IF hits = {} THEN PyNone
     ELSE PyStr(DigitRun(href, (CHOOSE i \in hits : \A j \in hits : i <= j) + 1))

\* int(group(1).replace(",", "").replace(".", "")) of a count such as 12,345.
RECURSIVE CountValue(_, _)
CountValue(num, acc) ==
  IF num = <<>> THEN acc
  ELSE IF Head(num) \in {",", "."} THEN CountValue(Tail(num), acc)
  ELSE CountValue(Tail(num), 10 * acc + DigitVal(Head(num)))

\* `"like" in kind`, `"retweet" in kind`, ...: the count a label word sets.
StatKey(kind) ==
  CASE kind \in {"like", "likes"} -> "favorites"
    [] kind \in {"retweet", "retweets"} -> "retweets"
    [] kind \in {"reply", "replies"} -> "replies"
    [] kind \in {"quote", "quotes"} -> "quotes"
    [] OTHER -> "ignored"

NoStats == [favorites |-> 0, replies |-> 0, retweets |-> 0, quotes |-> 0, ignored |-> 0]

\* The loop over the stat spans: a span is <<count characters, label word>>, or
\* has no count when the label does not match (\d[\d,\.]*)\s+(\w+).
RECURSIVE HtmlStats(_, _)
HtmlStats(spans, stats) ==
  IF spans = <<>> THEN stats
  ELSE LET sp == Head(spans) IN
       IF sp.num = <<>> THEN HtmlStats(Tail(spans), stats)
       ELSE HtmlStats(Tail(spans),
                      [stats EXCEPT ![StatKey(sp.word)] = CountValue(sp.num, 0)])

HtmlCreatedAt(title) ==
  LET created_at == title
      created_at_iso == IF Truthy(created_at) THEN to_iso8601(created_at) ELSE PyNone
  IN PyOr(created_at, created_at_iso)

HtmlObj(item, screen_name) ==
  LET sid == IF Truthy(item.href) THEN StatusId(item.href.v) ELSE PyNone
      stats == HtmlStats(item.stats, NoStats)
  IN MkRecord(sid, HtmlCreatedAt(item.title), item.content,
              PyInt(stats.favorites), PyInt(stats.replies), PyInt(stats.retweets),
              PyInt(stats.quotes), sid, screen_name)

HtmlKeep(obj) == Truthy(obj.tweet_id) \/ Truthy(obj.text)

RECURSIVE HtmlLoop(_, _, _, _)
HtmlLoop(timeline, res, screen_name, max_posts) ==
  IF timeline = <<>> THEN res
  ELSE LET obj == HtmlObj(Head(timeline), screen_name)
           res2 == IF HtmlKeep(obj) THEN Append(res, obj) ELSE res
       IN IF Len(res2) >= max_posts THEN res2
          ELSE HtmlLoop(Tail(timeline), res2, screen_name, max_posts)

parse_nitter_html(html, screen_name, max_posts) ==
  HtmlLoop(html, <<>>, screen_name, max_posts)

(***************************************************************************)
(* _parse_nitter_json.  A JSON value is a dict (with or without the key    *)
(* "statuses"), a list or a scalar; an item of the list is a dict, whose   *)
(* missing keys read as None (tw.get), or a scalar, on which tw.get raises *)
(* AttributeError.                                                         *)
(***************************************************************************)
\* str(x) of an id read from JSON.
PyStrOf(x) == IF x.t = "int" THEN PyStr(ToStr(x.v)) ELSE x

JsonItemsOf(data) ==
  IF data.t = "dict" /\ data.has_statuses THEN
       (IF Truthy(data.statuses) THEN data.statuses.v ELSE <<>>)
  ELSE IF data.t = "list" THEN data.v
  ELSE <<>>

JsonCreatedAt(tw) ==
  LET created_at == PyOr(tw.date, tw.created_at)
  IN IF Truthy(created_at) THEN PyOr(created_at, to_iso8601(created_at)) ELSE PyNone

JsonObj(tw, screen_name) ==
  LET tid == IF tw.id.t # "None" THEN PyStrOf(tw.id) ELSE PyNone
  IN MkRecord(tid, JsonCreatedAt(tw), tw.text,
              PyOr(PyOr(tw.likes, tw.favorites), PyInt(0)),
              PyOr(tw.replies, PyInt(0)),
              PyOr(tw.retweets, PyInt(0)),
              PyOr(tw.quotes, PyInt(0)),
              PyOr(tw.conversation_id, tid), screen_name)

\* The loop over the items: [raised, items]; raised when tw.get fails on an
\* item that is no dict.
RECURSIVE JsonLoop(_, _, _, _)
JsonLoop(items, res, screen_name, max_posts) ==
  IF items = <<>> THEN [raised |-> FALSE, items |-> res]
  ELSE IF Head(items).t # "dict" THEN [raised |-> TRUE, items |-> <<>>]
  ELSE LET res2 == Append(res, JsonObj(Head(items), screen_name))
       IN IF Len(res2) >= max_posts THEN [raised |-> FALSE, items |-> res2]
          ELSE JsonLoop(Tail(items), res2, screen_name, max_posts)

parse_nitter_json(data, screen_name, max_posts) ==
  JsonLoop(JsonItemsOf(data), <<>>, screen_name, max_posts)

(***************************************************************************)
(* _synthetic_posts.  hash() is Python's 64-bit string hash, keyed by the  *)
(* process's hash seed.  Its value is kept as a sign and a sequence of     *)
(* decimal digits (most significant first), so that abs(), % 10^10 and     *)
(* + i are computed on numbers of the width the code has.                  *)
(***************************************************************************)
CharCode(c) ==
  CASE c = "@" -> 64 [] c = " " -> 32 [] c = "j" -> 106 [] c = "T" -> 84
    [] c = "e" -> 101 [] c = "k" -> 107 [] OTHER -> 63

RECURSIVE PolyHash(_, _)
PolyHash(s, acc) ==
  IF s = <<>> THEN acc ELSE PolyHash(Tail(s), (31 * acc + CharCode(Head(s))) % 65521)

\* hash(s): a signed number of up to 19 decimal digits.
hash(seed, s) ==
  [neg |-> PolyHash(s, seed) % 2 = 1,
   digits |-> [k \in 1..19 |-> PolyHash(s, seed + k) % 10]]

\* abs(x)
Abs(x) == [x EXCEPT !.neg = FALSE]

RECURSIVE StripZeros(_)
StripZeros(ds) ==
  IF Len(ds) > 1 /\ Head(ds) = 0 THEN StripZeros(Tail(ds)) ELSE ds

\* x % 10^n for x >= 0: its last n decimal digits.
ModPow10(x, n) ==
  StripZeros(IF Len(x.digits) <= n THEN x.digits
             ELSE SubSeq(x.digits, Len(x.digits) - n + 1, Len(x.digits)))

\* ds + i on decimal digits.
RECURSIVE AddDigits(_, _)
AddDigits(ds, i) ==
  IF i = 0 THEN ds
  ELSE IF ds = <<>> THEN Append(AddDigits(<<>>, i \div 10), i % 10)
  ELSE LET sum == ds[Len(ds)] + i
       IN Append(AddDigits(SubSeq(ds, 1, Len(ds) - 1), sum \div 10), sum % 10)

\* str(n) of a number kept as decimal digits.
DigitsStr(ds) == [k \in 1..Len(ds) |-> Digit(ds[k])]

SyntheticObj(base_id, i, screen_name) ==
  LET tid == PyStr(DigitsStr(AddDigits(base_id, i)))
  IN MkRecord(tid, to_iso8601(PyNone),
              PyStr(<<"SYNTHETIC: Hello from @">> \o screen_name \o <<" #">> \o ToStr(i)),
              PyInt(10 + i), PyInt(i \div 2), PyInt(i \div 3), PyInt(i \div 5),
              tid, screen_name)

\* The loop over range(n) (the empty range when n <= 0), base_id computed once
\* before it: b ranges over the one value of the hash expression.
SyntheticLoop(seed, screen_name, n) ==
  CHOOSE out \in
    {[i \in 1..(IF n < 0 THEN 0 ELSE n) |-> SyntheticObj(base_id, i - 1, screen_name)] :
       base_id \in {ModPow10(Abs(hash(seed, screen_name)), HashModulusDigits)}} : TRUE

\* A variant with the loop one short: range(min(max_posts, 10) - 1).
synthetic_posts_short(screen_name, max_posts, seed) ==
  SyntheticLoop(seed, screen_name, Min(max_posts, SyntheticCap) - 1)

\* A variant without the cap: range(max_posts).
synthetic_posts_uncapped(screen_name, max_posts, seed) ==
  SyntheticLoop(seed, screen_name, max_posts)

synthetic_posts(screen_name, max_posts, seed) ==
  SyntheticLoop(seed, screen_name, Min(max_posts, SyntheticCap))

(***************************************************************************)
(* screen_name.lstrip("@").strip()                                         *)
(***************************************************************************)
RECURSIVE LStrip(_, _)
LStrip(s, chars) ==
  IF s # <<>> /\ Head(s) \in chars THEN LStrip(Tail(s), chars) ELSE s

RECURSIVE RStrip(_, _)
RStrip(s, chars) ==
  IF s # <<>> /\ s[Len(s)] \in chars THEN RStrip(SubSeq(s, 1, Len(s) - 1), chars) ELSE s

Whitespace == {" "}

NormalizeHandle(s) == RStrip(LStrip(LStrip(s, {"@"}), Whitespace), Whitespace)

(***************************************************************************)
(* The inputs: what the network may answer, and what fetch_all is given.   *)
(***************************************************************************)
HtmlFull ==
  [href |-> PyStr(<<"/", "a", "/status/", "4", "2">>), content |-> PyStr(<<"hello world">>),
   title |-> PyStr(OffsetDate),
   stats |-> <<[num |-> <<"1", "2", ",", "3", "4", "5">>, word |-> "likes"]>>]
HtmlTextOnly ==
  [href |-> PyStr(<<"/", "a">>), content |-> PyStr(<<"text only">>),
   title |-> PyStr(GarbageDate),
   stats |-> <<[num |-> <<>>, word |-> ""], [num |-> <<"3">>, word |-> "replies"]>>]
HtmlBare ==
  [href |-> PyNone, content |-> PyStr(<<>>), title |-> PyNone, stats |-> <<>>]

\* A page of n items that repeats a pattern of items.
Cyclic(pattern, n) == [i \in 1..n |-> pattern[((i - 1) % Len(pattern)) + 1]]

HtmlPatterns == {<<HtmlFull>>, <<HtmlBare>>, <<HtmlTextOnly, HtmlBare, HtmlFull>>}
HtmlDocs == {Cyclic(p, n) : p \in HtmlPatterns, n \in 0..MaxItems}

JsonDict(id, date, created_at, text, likes, replies) ==
  [t |-> "dict", id |-> id, date |-> date, created_at |-> created_at, text |-> text,
   likes |-> likes, favorites |-> PyNone, replies |-> replies, retweets |-> PyNone,
   quotes |-> PyNone, conversation_id |-> PyNone]

JsonFull == JsonDict(PyInt(42), PyNone, PyStr(NaiveDate), PyStr(<<"hi">>), PyInt(5), PyNone)
JsonEmpty == JsonDict(PyNone, PyNone, PyNone, PyNone, PyNone, PyNone)
JsonOdd == JsonDict(PyNone, PyStr(GarbageDate), PyNone, PyStr(<<"odd">>), PyInt(0 - 3),
                    PyStr(<<"1", "2">>))

JsonPatterns == {<<JsonFull>>, <<JsonEmpty, JsonOdd>>, <<JsonOdd, PyInt(7)>>}
JsonLists == {Cyclic(p, n) : p \in JsonPatterns, n \in 0..MaxItems}

\* The text of a response to the ?_format=json request: no JSON at all, or a value.
JsonBodies ==
  {[valid |-> FALSE, data |-> PyNone]}
  \cup {[valid |-> TRUE, data |-> d] :
          d \in {PyInt(1), [t |-> "dict", has_statuses |-> FALSE, statuses |-> PyNone],
                 [t |-> "dict", has_statuses |-> TRUE, statuses |-> PyNone]}}
  \cup {[valid |-> TRUE, data |-> [t |-> "list", v |-> l]] : l \in JsonLists}
  \cup {[valid |-> TRUE,
         data |-> [t |-> "dict", has_statuses |-> TRUE, statuses |-> [t |-> "list", v |-> l]]] :
          l \in {Cyclic(p, 1) : p \in JsonPatterns}}

\* The i-th name given to fetch_all, with the decorations a user may type.
RawName(i) ==
  CASE i = 1 -> <<"@", "j", "k">>
    [] i = 2 -> <<" ", "T", " ">>
    [] i = 3 -> <<"e">>
    [] OTHER -> <<"k", "e">>

Handles == 1..NumHandles

Configs ==
  [nitter_base : {"ok", "unsupported", "invalid"}, proxy : {"none", "invalid"},
   max_posts : 1..MaxPosts, concurrency : 1..MaxConcurrency, hashseed : {0}]

(***************************************************************************)
(* Exceptions.                                                             *)
(***************************************************************************)
Exc(cls, stage, attempt) == [t |-> "exc", cls |-> cls, stage |-> stage, attempt |-> attempt]

\* The exception classes that are subclasses of httpx.HTTPError.
HTTPErrors == {"HTTPError", "UnsupportedProtocol"}

\* What client.get / raise_for_status raise on a failed attempt: a malformed
\* base URL is httpx.InvalidURL or httpx.UnsupportedProtocol (an HTTPError), a
\* transport error or a non-2xx status is an HTTPError.
AttemptErrors(base) ==
  CASE base = "invalid" -> {"InvalidURL"}
    [] base = "unsupported" -> {"UnsupportedProtocol"}
    [] OTHER -> {"HTTPError"}

\* A variant that stops one attempt late.
ShouldRetry_late(exc, attempt) == exc.cls \in HTTPErrors /\ attempt <= MaxAttempts

\* tenacity: retry_if_exception_type(httpx.HTTPError), stop_after_attempt(3).
ShouldRetry(exc, attempt) == exc.cls \in HTTPErrors /\ attempt < MaxAttempts

\* tenacity: reraise=True raises the exception of the last attempt.
\* A variant without the clamp: the bare exponential value.
WaitExponential_unclamped(attempt) == WaitMultiplier * 2 ^ (attempt - 1)

\* wait_exponential(multiplier=0.8, min=1, max=6) after failed attempt number
\* `attempt`, in tenths of a time-unit: max(max(0, min), min(multiplier *
\* 2 ** (attempt - 1), max)).
WaitExponential(attempt) ==
  LET result == WaitMultiplier * 2 ^ (attempt - 1)
      Max(a, b) == IF a >= b THEN a ELSE b
  IN Max(Max(0, WaitMin), Min(result, WaitMax))

Reraised(errs) == errs[Len(errs)]

\* A variant of the handlers that catches httpx.HTTPError only.
ChainCatches_http_only(exc) == exc.cls \in HTTPErrors

\* fetch_username: `except Exception` (both handlers).
ChainCatches(exc) == TRUE

\* A variant of _task's handler that catches httpx.HTTPError only.
TaskCatches_http_only(exc) == exc.cls \in HTTPErrors

\* _task: `except Exception`.
TaskCatches(exc) == TRUE

\* A variant that goes on to strategy 2 whatever the HTML parse returned.
AfterHtmlParse_always_json(items) == "json"

\* A variant that returns whatever the HTML parse returned.
AfterHtmlParse_always_return(items) == "return"

\* fetch_username after the HTML parse: `if items: return items[:max_posts]`.
AfterHtmlParse(items) == IF items # <<>> THEN "return" ELSE "json"

\* fetch_username after the JSON parse: `if candidate: return candidate[:max_posts]`.
AfterJsonParse(candidate) == IF candidate # <<>> THEN "return" ELSE "synthetic"

\* fetch_username when the HTML _get_html raises: the outer handler, then synthetic.
\* A variant that goes on to strategy 2 after a failed HTML fetch.
AfterHtmlError_json == "json"

AfterHtmlError == "synthetic"

\* A variant of the semaphore that also passes at value 0.
CanAcquire_at_zero(value) == value >= 0

\* A variant that keeps the last permit back.
CanAcquire_above_one(value) == value > 1

\* asyncio.Semaphore: acquire passes without waiting when the value is positive.
CanAcquire(value) == value > 0

\* A variant that keeps the permit on the way out.
Release_leak(value, held) == value

\* Leaving `async with sem`: the permits the task holds go back.
Release(value, held) == value + held

\* A variant that rebinds the list instead of extending it.
Extend_overwrite(res, items) == items

\* A variant that adds the records one at a time, not all at the same end.
Extend_scattered(res, items) ==
  IF items = <<>> THEN res ELSE <<Head(items)>> \o res \o Tail(items)

\* results.extend(items)
Extend(res, items) == res \o items

\* obj.setdefault("_fetched_at", now_utc_iso()); obj.setdefault("_source", "nitter")
Stamp(obj) ==
  [obj EXCEPT !.fetched_at = IF @ = Absent THEN now_utc_iso ELSE @,
              !.source = IF @ = Absent THEN PyStr(<<"nitter">>) ELSE @]

(***************************************************************************)
(* State.                                                                  *)
(*   cfg        the settings fetch_all is given (the fetcher's fields, the *)
(*              semaphore's size), and the process's hash seed             *)
(*   usernames  the names fetch_all is given: strings, or None             *)
(*   sem        the semaphore's value (free permits)                       *)
(*   task[h]    the _task coroutine of usernames[h] and the fetch_username *)
(*              call inside it                                             *)
(*   results    fetch_all's list                                           *)
(*   order      the handles in the order their tasks extended results      *)
(*   phase      "running" until gather is over and the metadata attached,  *)
(*              then "returned"; "raised" if fetch_all raises              *)
(***************************************************************************)
NewTask ==
  [pc |-> "waiting",        \* waiting | get | done
   screen_name |-> <<>>,    \* the handle after lstrip("@").strip()
   stage |-> "none",        \* none | html | json | synthetic
   errs |-> <<>>,           \* the failed attempts of the _get_html call under way
   slept |-> <<>>,          \* the delays slept between its attempts
   html_requested |-> FALSE,\* a GET of {base}/{handle} was issued
   json_requested |-> FALSE,\* a GET of {base}/{handle}?_format=json was issued
   html_called |-> FALSE,   \* _parse_nitter_html was invoked
   html_items |-> <<>>,     \* what it returned
   json_called |-> FALSE,   \* _parse_nitter_json was invoked
   json_items |-> <<>>,     \* what it returned
   synth_called |-> FALSE,  \* _synthetic_posts was invoked
   caught |-> PyNone,       \* the exception a handler of fetch_username caught
   outcome |-> "none",      \* none | returned | raised (out of fetch_username)
   items |-> <<>>]          \* what fetch_username returned

Init ==
  /\ cfg \in Configs
  /\ usernames \in [Handles -> {PyNone} \cup {PyStr(RawName(i)) : i \in Handles}]
  /\ \A h \in Handles : usernames[h] \in {PyNone, PyStr(RawName(h))}
  /\ Cardinality({h \in Handles : usernames[h] = PyNone}) <= 1
  /\ sem = cfg.concurrency
  /\ task = [h \in Handles |-> NewTask]
  /\ results = <<>>
  /\ order = <<>>
  /\ phase = "running"

\* fetch_username returns `items` to _task: results.extend(items), the log line,
\* and the semaphore released on leaving `async with sem`.  `held` is the permit
\* the task holds as the step starts (0 when the step also acquired it).
TaskReturns(h, t, items, held) ==
  /\ task' = [task EXCEPT ![h] = [t EXCEPT !.pc = "done", !.outcome = "returned",
                                           !.items = items]]
  /\ results' = Extend(results, items)
  /\ order' = Append(order, h)
  /\ sem' = Release(sem, held)
  /\ UNCHANGED <<cfg, usernames, phase>>

\* An exception leaves fetch_username: _task's handler logs it, and the semaphore
\* is released on leaving `async with sem`; uncaught, it ends gather and fetch_all.
TaskRaises(h, t, exc, held) ==
  /\ task' = [task EXCEPT ![h] = [t EXCEPT !.pc = "done", !.outcome = "raised"]]
  /\ sem' = Release(sem, held)
  /\ phase' = IF TaskCatches(exc) THEN phase ELSE "raised"
  /\ UNCHANGED <<cfg, usernames, results, order>>

\* Strategy 3, and the return of its records.
Synthetic(h, t, held) ==
  \E synth \in {[t EXCEPT !.stage = "synthetic", !.synth_called = TRUE]} :
    \E items \in {synthetic_posts(synth.screen_name, cfg.max_posts, cfg.hashseed)} :
      TaskReturns(h, synth, items, held)

\* _task passes `async with sem` (which does not suspend when a permit is free)
\* and runs fetch_username to its first suspension point.  Here the name is no
\* string: line 58 raises AttributeError, outside the try.
EnterRaises(h) ==
  /\ phase = "running"
  /\ task[h].pc = "waiting"
  /\ CanAcquire(sem)
  /\ usernames[h].t # "str"
  /\ TaskRaises(h, task[h], Exc("AttributeError", "none", 0), 0)

\* The same, up to _client(), which raises on an invalid proxy: the outer handler
\* catches it and the synthetic records are returned.
EnterBadProxy(h) ==
  /\ phase = "running"
  /\ task[h].pc = "waiting"
  /\ CanAcquire(sem)
  /\ usernames[h].t = "str"
  /\ cfg.proxy = "invalid"
  /\ LET exc == Exc("ValueError", "none", 0)
         t == [task[h] EXCEPT !.screen_name = NormalizeHandle(usernames[h].v)]
     IN IF ChainCatches(exc) THEN Synthetic(h, [t EXCEPT !.caught = exc], 0)
        ELSE TaskRaises(h, t, exc, 0)

\* The same, up to the first GET of strategy 1, where the task suspends holding
\* its permit.
EnterHtml(h) ==
  /\ phase = "running"
  /\ task[h].pc = "waiting"
  /\ CanAcquire(sem)
  /\ usernames[h].t = "str"
  /\ cfg.proxy # "invalid"
  /\ sem' = sem - 1
  /\ task' = [task EXCEPT ![h].screen_name = NormalizeHandle(usernames[h].v),
                          ![h].stage = "html", ![h].pc = "get",
                          ![h].html_requested = TRUE]
  /\ UNCHANGED <<cfg, usernames, results, order, phase>>

\* One attempt of _get_html fails and tenacity sleeps and tries again.
GetRetry(h) ==
  /\ phase = "running"
  /\ task[h].pc = "get"
  /\ \E cls \in AttemptErrors(cfg.nitter_base) :
       LET n == Len(task[h].errs) + 1
           exc == Exc(cls, task[h].stage, n)
       IN /\ ShouldRetry(exc, n)
          /\ task' = [task EXCEPT ![h] = [task[h] EXCEPT !.errs = Append(@, exc),
                                      !.slept = Append(@, WaitExponential(n))]]
  /\ UNCHANGED <<cfg, usernames, sem, results, order, phase>>

\* One attempt of _get_html fails and is not retried: _get_html raises, into the
\* inner handler (JSON stage) or the outer one (HTML stage), and strategy 3 runs.
\* (The client is closed on the way out of `async with`; nothing shared is
\* touched before or while it closes, so the step runs on to the return.)
GetRaises(h) ==
  /\ phase = "running"
  /\ task[h].pc = "get"
  /\ \E cls \in AttemptErrors(cfg.nitter_base) :
       LET n == Len(task[h].errs) + 1
           exc == Exc(cls, task[h].stage, n)
           raised == Reraised(Append(task[h].errs, exc))
           t == [task[h] EXCEPT !.errs = <<>>, !.slept = <<>>, !.caught = raised]
       IN /\ ~ShouldRetry(exc, n)
          /\ IF ~ChainCatches(raised) THEN TaskRaises(h, task[h], raised, 1)
             ELSE IF t.stage = "html" /\ AfterHtmlError = "json"
             THEN /\ task' = [task EXCEPT ![h] = [t EXCEPT !.stage = "json", !.json_requested = TRUE]]
                  /\ UNCHANGED <<cfg, usernames, sem, results, order, phase>>
             ELSE Synthetic(h, t, 1)

\* The HTML GET succeeds: the page is parsed, and its records are returned
\* (`return items[:max_posts]`) or strategy 2 starts.
HtmlResponse(h) ==
  /\ phase = "running"
  /\ task[h].pc = "get"
  /\ task[h].stage = "html"
  /\ cfg.nitter_base = "ok"
  /\ \E html \in HtmlDocs :
       LET items == parse_nitter_html(html, task[h].screen_name, cfg.max_posts)
           t == [task[h] EXCEPT !.errs = <<>>, !.slept = <<>>, !.html_called = TRUE,
                                !.html_items = items]
       IN IF AfterHtmlParse(items) = "return"
          THEN TaskReturns(h, t, Take(items, cfg.max_posts), 1)
          ELSE /\ task' = [task EXCEPT ![h] = [t EXCEPT !.stage = "json", !.json_requested = TRUE]]
               /\ UNCHANGED <<cfg, usernames, sem, results, order, phase>>

\* The JSON GET succeeds: json.loads and the parse; the records are returned
\* (`return candidate[:max_posts]`), or the chain falls through to strategy 3
\* (an exception of either is caught by the inner handler).
JsonResponse(h) ==
  /\ phase = "running"
  /\ task[h].pc = "get"
  /\ task[h].stage = "json"
  /\ cfg.nitter_base = "ok"
  /\ \E body \in JsonBodies :
       LET t == [task[h] EXCEPT !.errs = <<>>, !.slept = <<>>]
           parsed == parse_nitter_json(body.data, t.screen_name, cfg.max_posts)
           called == [t EXCEPT !.json_called = TRUE, !.json_items = parsed.items]
       IN IF ~body.valid
          THEN Synthetic(h, [t EXCEPT !.caught = Exc("JSONDecodeError", "json", 0)], 1)
          ELSE IF parsed.raised
          THEN Synthetic(h, [called EXCEPT !.caught = Exc("AttributeError", "json", 0)], 1)
          ELSE IF AfterJsonParse(parsed.items) = "return"
          THEN TaskReturns(h, called, Take(parsed.items, cfg.max_posts), 1)
          ELSE Synthetic(h, called, 1)

\* gather is over: the metadata is attached to every record and fetch_all returns.
Gather ==
  /\ phase = "running"
  /\ \A h \in Handles : task[h].pc = "done"
  /\ results' = [i \in 1..Len(results) |-> Stamp(results[i])]
  /\ phase' = "returned"
  /\ UNCHANGED <<cfg, usernames, sem, task, order>>

Next ==
  \/ \E h \in Handles : EnterRaises(h)
  \/ \E h \in Handles : EnterBadProxy(h)
  \/ \E h \in Handles : EnterHtml(h)
  \/ \E h \in Handles : GetRetry(h)
  \/ \E h \in Handles : GetRaises(h)
  \/ \E h \in Handles : HtmlResponse(h)
  \/ \E h \in Handles : JsonResponse(h)
  \/ Gather

Spec == Init /\ [][Next]_vars

(***************************************************************************)
(* The scheduling fetch_all runs under.  The event loop runs every task    *)
(* that is ready: a task waiting at `async with sem` while a permit is     *)
(* free is woken, and gather resumes once all tasks are done.  The client  *)
(* is built with timeout=self.timeout_seconds: every GET attempt ends,     *)
(* with a response or with an exception.                                   *)
(***************************************************************************)
Enters(h) == EnterRaises(h) \/ EnterBadProxy(h) \/ EnterHtml(h)

AttemptEnds(h) == GetRetry(h) \/ GetRaises(h) \/ HtmlResponse(h) \/ JsonResponse(h)

Fairness ==
  /\ \A h \in Handles : WF_vars(Enters(h)) /\ WF_vars(AttemptEnds(h))
  /\ WF_vars(Gather)

\* Whether fetch_all returns does not depend on how many records a chain may
\* return: the fair behaviours are those with max_posts = 1.
FairInit == Init /\ cfg.max_posts = 1

FairSpec == FairInit /\ [][Next]_vars /\ Fairness

(***************************************************************************)
(* fetch_all over a list of one handle, with the wider inputs that one     *)
(* chain alone leaves room for: a max_posts above the cap of the synthetic *)
(* generator, the two hash seeds a process may start with (str hashes are  *)
(* salted per process), and every handle string made of optional           *)
(* whitespace, an optional '@', a name and optional whitespace.            *)
(***************************************************************************)
HashSeeds == {0, 1}

SoloConfigs ==
  [nitter_base : {"ok", "unsupported", "invalid"}, proxy : {"none", "invalid"},
   max_posts : (1..MaxPosts) \cup {SyntheticCap + 1}, concurrency : 1..MaxConcurrency,
   hashseed : HashSeeds]

Names == {<<"j", "k">>, <<"T">>}

SoloHandles ==
  {pre \o at \o name \o post :
     pre \in {<<>>, <<" ">>}, at \in {<<>>, <<"@">>}, name \in Names,
     post \in {<<>>, <<" ">>}}

\* gather creates one task per element of the list: the positions after the
\* first have no task.
SoloInit ==
  /\ cfg \in SoloConfigs
  /\ \E u \in {PyNone} \cup {PyStr(s) : s \in SoloHandles} :
       usernames = [h \in Handles |-> IF h = 1 THEN u ELSE Absent]
  /\ sem = cfg.concurrency
  /\ task = [h \in Handles |-> IF h = 1 THEN NewTask ELSE [NewTask EXCEPT !.pc = "done"]]
  /\ results = <<>>
  /\ order = <<>>
  /\ phase = "running"

SoloSpec == SoloInit /\ [][Next]_vars

(***************************************************************************)
(* Properties.                                                             *)
(***************************************************************************)
Range(f) == {f[i] : i \in DOMAIN f}

Done(h) == task[h].pc = "done"
IsName(h) == usernames[h].t = "str"

\* C1: for every handle (a string) and every network behaviour, with
\* max_posts >= 1, fetch_username does not raise and returns at least one
\* record.
C1_NeverEmpty ==
  \A h \in Handles :
    (Done(h) /\ IsName(h) /\ cfg.max_posts >= 1) =>
      (task[h].outcome = "returned" /\ Len(task[h].items) >= 1)

\* A handle whose HTML fetch failed on every attempt got its synthetic records.
C1_Witness ==
  \E h \in Handles :
    /\ Done(h) /\ task[h].synth_called
    /\ task[h].caught = Exc("HTTPError", "html", MaxAttempts)
    /\ Len(task[h].items) = cfg.max_posts

\* The HTML stage of h ended without records: its fetch failed after the
\* retries, or its parse returned an empty list.
HtmlFetchFailed(h) ==
  task[h].caught = Exc("HTTPError", "html", MaxAttempts)
HtmlParsedEmpty(h) == task[h].html_called /\ task[h].html_items = <<>>

\* C2: the strategies are tried strictly in the order HTML, JSON, Synthetic:
\* whenever the HTML stage ends without records (its fetch failed after the
\* retries, or its parse returned an empty list) the JSON request is issued
\* before Synthetic is used, and Synthetic is used only after the JSON stage
\* has failed or returned empty.
C2_JsonBeforeSynthetic ==
  \A h \in Handles :
    /\ (task[h].synth_called /\ (HtmlFetchFailed(h) \/ HtmlParsedEmpty(h)))
         => task[h].json_requested
    /\ (task[h].synth_called /\ task[h].json_requested) => task[h].json_items = <<>>
    /\ task[h].json_requested => task[h].html_requested

\* C3: if the HTML parse yields at least one record, no JSON request is issued,
\* neither the JSON parser nor the synthetic generator is invoked, and the
\* records returned are the HTML records cut to max_posts; if the JSON parse
\* yields at least one record the synthetic generator is not invoked (and the
\* JSON records cut to max_posts are returned).
C3_FirstNonEmptyWins ==
  \A h \in Handles :
    /\ (task[h].html_called /\ Len(task[h].html_items) >= 1) =>
         /\ ~task[h].json_requested
         /\ ~task[h].json_called
         /\ ~task[h].synth_called
         /\ Done(h) /\ task[h].outcome = "returned"
         /\ task[h].items = Take(task[h].html_items, cfg.max_posts)
    /\ (task[h].json_called /\ Len(task[h].json_items) >= 1) =>
         /\ ~task[h].synth_called
         /\ Done(h) /\ task[h].outcome = "returned"
         /\ task[h].items = Take(task[h].json_items, cfg.max_posts)

\* One handle returned its HTML records and another its JSON records.
C3_Witness ==
  \E h, g \in Handles :
    /\ Done(h) /\ task[h].html_called /\ Len(task[h].html_items) = cfg.max_posts
    /\ Done(g) /\ task[g].json_called /\ Len(task[g].json_items) >= 1

\* The tasks inside the semaphore-guarded section: each has an extraction
\* chain, and one GET, in flight.
Inside == {h \in Handles : task[h].pc = "get"}

\* C4: with concurrency limit N >= 1, in every reachable state at most N tasks
\* are inside the semaphore-guarded section, so at most N chains (and at most
\* N GETs) are in flight at once.
C4_AtMostN == Cardinality(Inside) <= cfg.concurrency

\* N tasks are inside and a further task is waiting for a permit.
C4_Witness ==
  /\ Cardinality(Inside) = cfg.concurrency
  /\ \E h \in Handles : task[h].pc = "waiting"

Unstamped(obj) == [obj EXCEPT !.fetched_at = Absent, !.source = Absent]

\* C5: if the chain of one handle raises, the other handles' chains still run
\* to completion and every record they produced is in the returned list; the
\* failing handle contributes no record and fetch_all does not raise.
C5_FailureIsolated ==
  /\ phase # "raised"
  /\ \A h \in Handles :
       task[h].outcome = "raised" =>
         /\ h \notin Range(order)
         /\ task[h].items = <<>>
  /\ phase = "returned" =>
       \A g \in Handles :
         /\ Done(g)
         /\ task[g].outcome = "returned" =>
              /\ g \in Range(order)
              /\ \A i \in 1..Len(task[g].items) :
                   \E j \in 1..Len(results) : Unstamped(results[j]) = task[g].items[i]

\* fetch_all returned, one chain had raised and another handle's records are
\* in the list.
C5_Witness ==
  /\ phase = "returned"
  /\ \E h, g \in Handles :
       /\ task[h].outcome = "raised"
       /\ task[g].outcome = "returned"
       /\ Len(task[g].items) >= 1
       /\ Len(results) = Len(task[g].items)

\* The settings hold a configuration error: an invalid proxy specification or
\* a malformed base URL.
BadProxy == cfg.proxy = "invalid"
BadBase == cfg.nitter_base \in {"invalid", "unsupported"}
ConfigError == BadProxy \/ BadBase

GetErrors == HTTPErrors \cup {"InvalidURL"}

\* C7: one call of _get_html makes at most 3 GET attempts; it retries only
\* after an attempt that failed with an HTTPError (transport error or non-2xx
\* status); when all 3 attempts fail it raises the error of the last attempt
\* to fetch_username, where that error is caught (the task does not raise).
\* A successful attempt ends the call: the parse of its body is the next thing
\* to happen, so no failed attempt is on record once a parser has run.
C7_BoundedRetry ==
  \A h \in Handles :
    /\ Len(task[h].errs) < MaxAttempts
    /\ \A k \in 1..Len(task[h].errs) :
         /\ task[h].errs[k].cls \in HTTPErrors
         /\ task[h].errs[k].attempt = k
         /\ task[h].errs[k].stage = task[h].stage
    /\ task[h].errs # <<>> => task[h].pc = "get"
    /\ (task[h].caught.t = "exc" /\ task[h].caught.cls \in GetErrors) =>
         /\ task[h].caught.attempt \in 1..MaxAttempts
         /\ task[h].caught.cls \in HTTPErrors => task[h].caught.attempt = MaxAttempts
         /\ task[h].outcome # "raised"
         /\ Done(h) /\ task[h].synth_called

\* A JSON-stage _get_html failed 3 times and its last error was caught.
C7_Witness ==
  \E h \in Handles :
    /\ task[h].caught = Exc("HTTPError", "json", MaxAttempts)
    /\ task[h].html_called

RECURSIVE Flatten(_)
Flatten(ord) == IF ord = <<>> THEN <<>> ELSE task[Head(ord)].items \o Flatten(Tail(ord))

\* C8: fetch_all returns exactly the records the completed chains produced,
\* none lost and none duplicated, whatever the order of completion; every
\* returned record carries _fetched_at and _source = "nitter", which are
\* attached only after all chains have completed, never by a strategy.
C8_ExactAggregation ==
  /\ [i \in 1..Len(results) |-> Unstamped(results[i])] = Flatten(order)
  /\ Range(order) = {h \in Handles : task[h].outcome = "returned"}
  /\ Len(order) = Cardinality(Range(order))
  /\ phase = "running" =>
       \A i \in 1..Len(results) :
         results[i].fetched_at = Absent /\ results[i].source = Absent
  /\ phase = "returned" =>
       /\ \A h \in Handles : Done(h)
       /\ \A i \in 1..Len(results) :
            /\ IsUtcIso(results[i].fetched_at)
            /\ results[i].source = PyStr(<<"nitter">>)

\* fetch_all returned the records of every handle, the last handle's first.
C8_Witness ==
  /\ phase = "returned"
  /\ Len(order) = NumHandles
  /\ order[1] = NumHandles
  /\ \A h \in Handles : Len(task[h].items) >= 1
  /\ \E h \in Handles : ~task[h].synth_called

\* The records fetch_username returned, over all handles.
Returned == UNION {Range(task[h].items) : h \in Handles}

\* C9: every record in the output of fetch_username, whichever strategy
\* produced it, has a non-null created_at that is a UTC-normalized ISO-8601
\* string (the current time when the source has no date or an unparsable one).
C9_CreatedAtIsUtcIso ==
  \A r \in Returned : r.created_at # PyNone /\ IsUtcIso(r.created_at)

\* C10: no record in the output of fetch_username has both a null tweet_id and
\* a null or empty text, whichever strategy produced it.
C10_IdOrText ==
  \A r \in Returned : Truthy(r.tweet_id) \/ Truthy(r.text)

\* The engagement counts of a record.
Counts(r) == {r.favorites, r.replies, r.retweets, r.quotes}

\* C11: in every record returned by any strategy, favorites, replies, retweets
\* and quotes are non-negative integers, whatever the HTML stat nodes or the
\* JSON item fields carry (absent, zero, negative, non-numeric).
C11_CountsNonNegative ==
  \A r \in Returned : \A c \in Counts(r) : c.t = "int" /\ c.v >= 0

\* C12: for every handle and every strategy outcome, fetch_username returns at
\* most max_posts records: the HTML and the JSON parser stop at max_posts kept
\* records, and the synthetic generator returns exactly min(max_posts, 10)
\* records.
C12_AtMostMaxPosts ==
  \A h \in Handles :
    /\ Len(task[h].items) <= cfg.max_posts
    /\ Len(task[h].html_items) <= cfg.max_posts
    /\ Len(task[h].json_items) <= cfg.max_posts
    /\ task[h].synth_called =>
         /\ Done(h)
         /\ Len(task[h].items) = Min(cfg.max_posts, SyntheticCap)
         /\ task[h].items = synthetic_posts(task[h].screen_name, cfg.max_posts, cfg.hashseed)

\* With max_posts above 10 the synthetic generator returned 10 records.
C12_Witness ==
  \E h \in Handles :
    /\ task[h].synth_called
    /\ cfg.max_posts > SyntheticCap
    /\ Len(task[h].items) = SyntheticCap

\* A parser that was given more items than max_posts stopped at max_posts.
C12_ParserStopped ==
  \E h \in Handles :
    /\ task[h].json_called
    /\ Len(task[h].json_items) = cfg.max_posts
    /\ cfg.max_posts < MaxItems

\* No request of the run was answered: the network is disabled.
Offline == \A h \in Handles : ~task[h].html_called

\* The base ids _synthetic_posts can derive from a handle, and the one base id
\* of the handle if it depends on the handle string only.
BaseIds(name) == {ModPow10(Abs(hash(seed, name)), HashModulusDigits) : seed \in HashSeeds}
BaseId(name) == CHOOSE b \in BaseIds(name) : TRUE

\* C13: with the network disabled fetch_all returns, for each handle, exactly
\* min(max_posts, 10) synthetic records, each with _source = "nitter", whose
\* tweet_id values are base+0 .. base+k-1, pairwise distinct, base being a
\* function of the handle string only (so that two invocations for the same
\* handle give the same ids and texts).
C13_OfflineSynthetic ==
  (phase = "returned" /\ Offline) =>
    /\ \A j \in 1..Len(results) : results[j].source = PyStr(<<"nitter">>)
    /\ \A h \in Handles :
         IsName(h) =>
           LET items == task[h].items
               name == task[h].screen_name
           IN /\ task[h].synth_called
              /\ Len(items) = Min(cfg.max_posts, SyntheticCap)
              /\ \A i, j \in 1..Len(items) : i # j => items[i].tweet_id # items[j].tweet_id
              /\ \A i \in 1..Len(items) :
                   /\ items[i].tweet_id = PyStr(DigitsStr(AddDigits(BaseId(name), i - 1)))
                   /\ items[i].text =
                        PyStr(<<"SYNTHETIC: Hello from @">> \o name \o <<" #">> \o ToStr(i - 1))

\* C14: for every input handle made of optional surrounding whitespace, an
\* optional leading '@' and a name, the handle fetch_username uses in the
\* request URLs and in the synthetic records has no leading '@' and no leading
\* or trailing whitespace, and is the name with the case of its letters kept.
C14_HandleNormalized ==
  \A h \in Handles :
    (IsName(h) /\ task[h].pc # "waiting") =>
      LET sn == task[h].screen_name
      IN /\ sn # <<>>
         /\ Head(sn) \notin {"@"} \cup Whitespace
         /\ sn[Len(sn)] \notin Whitespace
         /\ sn \in Names
         /\ \A r \in Range(task[h].items) :
              task[h].synth_called => r.screen_name = PyStr(sn)

\* C15: for any list of handles and any concurrency limit N >= 1, if every
\* HTTP attempt eventually returns or fails and the tasks are scheduled
\* fairly, fetch_all eventually returns: every handle's task has acquired the
\* semaphore, finished its chain and released its permit, also the tasks that
\* were queued behind a chain that fails.
C15_EventuallyReturns ==
  <>(/\ phase = "returned"
     /\ \A h \in Handles : Done(h)
     /\ sem = cfg.concurrency)

\* Every permit is held, by chains whose attempts have failed so far, and a
\* task is queued behind them.
C15_Witness ==
  /\ sem = 0
  /\ \E h \in Handles : task[h].pc = "waiting"
  /\ \A g \in Inside : task[g].errs # <<>>

\* The records of handle h in fetch_all's list are those at k+1 .. k+n, in the
\* order its strategy produced them, and no record of h is anywhere else.
BlockAt(h, k) ==
  LET items == task[h].items
      n == Len(items)
  IN /\ \A i \in 1..n : Unstamped(results[k + i]) = items[i]
     /\ \A j \in 1..Len(results) :
          (j <= k \/ j > k + n) => results[j].screen_name # PyStr(task[h].screen_name)

\* C16: in fetch_all's list the records of one handle appear in the order in
\* which that handle's strategy produced them, as one contiguous block, under
\* every interleaving of the tasks' completions (records of two handles are
\* never interleaved; only the order of the blocks may vary).
C16_ContiguousBlocks ==
  \A h \in Handles :
    task[h].outcome = "returned" =>
      \E k \in 0..(Len(results) - Len(task[h].items)) : BlockAt(h, k)

\* fetch_all returned; two handles contributed two different records each and
\* the handle later in the list completed first.
C16_Witness ==
  /\ phase = "returned"
  /\ \E h, g \in Handles :
       /\ h < g
       /\ \E i, j \in 1..Len(order) : i < j /\ order[i] = g /\ order[j] = h
       /\ Len(task[h].items) >= 2 /\ task[h].items[1] # task[h].items[2]
       /\ Len(task[g].items) >= 2 /\ task[g].items[1] # task[g].items[2]
       /\ ~task[h].synth_called

\* The document without a timeline container: no timeline item to loop over.
NoTimeline == <<>>

\* C17: for an HTML document without timeline container item
\* _parse_nitter_html returns an empty list and does not raise, and
\* fetch_username then goes on to the JSON stage: it issues the ?_format=json
\* request, and neither returns nor fails before that stage has ended.
C17_EmptyHtmlToJson ==
  \A h \in Handles :
    /\ parse_nitter_html(NoTimeline, task[h].screen_name, cfg.max_posts) = <<>>
    /\ HtmlParsedEmpty(h) =>
         /\ task[h].json_requested
         /\ task[h].outcome # "raised"
         /\ \/ task[h].pc = "get" /\ task[h].stage = "json" /\ task[h].outcome = "none"
            \/ Done(h) /\ (task[h].json_called \/ task[h].caught.t = "exc")
         /\ (Done(h) /\ task[h].caught.t = "exc") => task[h].caught.stage = "json"

\* The page had no timeline item: the parse returned an empty list and the
\* ?_format=json request is under way.
C17_Witness ==
  /\ NoTimeline \in HtmlDocs
  /\ \E h \in Handles :
       /\ HtmlParsedEmpty(h)
       /\ task[h].pc = "get" /\ task[h].stage = "json" /\ task[h].json_requested
       /\ task[h].errs = <<>>

\* C18: the delay slept after the k-th failed attempt of one _get_html call is
\* 0.8 * 2^(k-1) clamped into [1, 6] (here in tenths: 8 * 2^(k-1) into
\* [10, 60]); every delay is at least 1 and at most 6, the delays do not
\* decrease from one attempt to the next, and no delay follows the 3rd attempt.
C18_BackoffDelays ==
  /\ \A h \in Handles :
       LET slept == task[h].slept
       IN /\ Len(slept) = Len(task[h].errs)
          /\ Len(slept) < MaxAttempts
          /\ \A k \in 1..Len(slept) :
               LET exp == WaitMultiplier * 2 ^ (k - 1)
               IN /\ slept[k] = IF exp < WaitMin THEN WaitMin
                                ELSE IF exp > WaitMax THEN WaitMax ELSE exp
                  /\ slept[k] >= WaitMin /\ slept[k] <= WaitMax
                  /\ k > 1 => slept[k - 1] <= slept[k]
  /\ \A k \in 1..(2 * MaxAttempts) :
       /\ WaitExponential(k) >= WaitMin /\ WaitExponential(k) <= WaitMax
       /\ WaitExponential(k) <= WaitExponential(k + 1)

\* A call of _get_html has slept after its 1st and after its 2nd failed
\* attempt, 1 and then 1.6 time-units, and its 3rd attempt is under way.
C18_Witness ==
  \E h \in Handles :
    /\ task[h].pc = "get"
    /\ task[h].slept = <<WaitMin, 2 * WaitMultiplier>>

\* C19: the permits of the semaphore are conserved: in every reachable state
\* the free permits and the tasks inside the guarded section add up to N; a
\* task that is done, whether its chain returned or raised, holds no permit;
\* and when fetch_all returns all N permits are free.
C19_PermitsConserved ==
  /\ sem + Cardinality(Inside) = cfg.concurrency
  /\ sem >= 0
  /\ (\A h \in Handles : Done(h)) => sem = cfg.concurrency
  /\ phase = "returned" => sem = cfg.concurrency /\ Inside = {}

\* fetch_all returned with all permits free after one chain had returned
\* records fetched under a permit and another had raised.
C19_Witness ==
  /\ phase = "returned"
  /\ sem = cfg.concurrency
  /\ \E h, g \in Handles :
       /\ task[h].outcome = "returned" /\ task[h].html_requested
       /\ task[g].outcome = "raised"

\* A step in which the chain of h issues a GET: the first attempt of the HTML
\* call, a further attempt of the call under way, or the first attempt of the
\* JSON call.  The GET goes to the URL of task'[h].stage and is attempt number
\* Len(task'[h].errs) + 1 of its _get_html call.
GetIssued(h) ==
  /\ task'[h].pc = "get"
  /\ \/ task[h].pc # "get"
     \/ task'[h].stage # task[h].stage
     \/ task'[h].errs # task[h].errs

====
